---- MODULE Spec2Model ----
(***************************************************************************)
(* Model of the OAuth2 authentication subsystem: the login and callback    *)
(* routes, the session and token dependencies, the cache client and the    *)
(* database service.                                                       *)
(*                                                                         *)
(* Each request is a coroutine on one asyncio event loop.  One action      *)
(* models one statement that touches a store, the provider or the clock,   *)
(* together with the local code up to the next such statement.  An await   *)
(* on the database, on the provider or on the real Redis client suspends   *)
(* the coroutine, so other requests may run before its next action.  An    *)
(* await on FakeRedisClient does not suspend (its methods contain no       *)
(* await): the variable running holds the request that keeps the loop.     *)
(***************************************************************************)
EXTENDS Integers, FiniteSets, Sequences, TLC

\* ---------------------------------------------------------------- bounds
MaxReq == 2          \* concurrent requests in flight
MaxLogins == 2       \* login requests that generate a state nonce
MaxCallbacks == 2    \* callbacks that pass state validation
MaxTicks == 1        \* clock advances
MaxPid == 1          \* provider-scoped account ids per provider
MaxEmail == 2        \* distinct e-mail addresses
MaxList == 2         \* entries in the address list of a GitHub account

\* ------------------------------------------------------- program constants
STATE_TTL == 300                       \* ex=300 in oauth_login
ACCESS_TOKEN_EXPIRE_MINUTES == 30      \* Settings.ACCESS_TOKEN_EXPIRE_MINUTES
SessionTTL == ACCESS_TOKEN_EXPIRE_MINUTES * 60

Reqs == 1..MaxReq
Providers == {"google", "github"}                \* oauth_login line 21
PathProviders == Providers \cup {"gitlab"}       \* any path parameter
Backends == {"redis", "fake"}                    \* RedisClient.connect
Steps == {SessionTTL + 1}             \* a clock advance: past one session lifetime

\* E-mail addresses, with the part split("@")[0] returns.
Email(i) == [local |-> i, domain |-> "x.com"]
Emails == {Email(i) : i \in 1..MaxEmail}
NoEmail == [local |-> 0, domain |-> ""]
LocalPart(e) == <<"local", e.local>>
Login(pid) == <<"login", pid>>
NoName == <<"", 0>>

\* models.User / models.OAuthUser
NoUser == [id |-> 0, username |-> NoName, email |-> NoEmail]
NoOAuthUser == [provider |-> "", provider_id |-> 0, email |-> NoEmail, username |-> NoName]

\* ------------------------------------------------------------ cache client
\* A cache entry: the stored string and, on the real Redis, its expiry time.
NoExpiry == -1
NoEntry == [kind |-> "none", prov |-> "", user |-> NoUser, exp |-> NoExpiry]
StateKey(n) == <<"oauth_state", n>>
SessionKey(s) == <<"session", s>>
StateValue(p) == [kind |-> "provider", prov |-> p, user |-> NoUser]
SessionValue(u) == [kind |-> "session", prov |-> "", user |-> u]

\* RedisClient.set / FakeRedisClient.set: the fake client drops ex.
CacheSet(b, c, k, v, ex, t) ==
  LET e == [kind |-> v.kind, prov |-> v.prov, user |-> v.user,
            exp |-> IF b = "redis" THEN t + ex ELSE NoExpiry]
  IN [x \in DOMAIN c \cup {k} |-> IF x = k THEN e ELSE c[x]]

\* Whether key k holds a value at time t (Redis expires keys with a TTL).
CacheLive(c, k, t) ==
  /\ k \in DOMAIN c
  /\ c[k].exp = NoExpiry \/ t < c[k].exp

\* RedisClient.get / FakeRedisClient.get: the value with the type the client
\* returns it in: str from the real client (decode_responses=True), bytes
\* from the fake one (value.encode()); None when the key is absent.
CacheGet(b, c, k, t) ==
  IF CacheLive(c, k, t)
  THEN [type |-> IF b = "redis" THEN "str" ELSE "bytes", val |-> c[k]]
  ELSE [type |-> "None", val |-> NoEntry]

\* A delete that leaves the key in place.
CacheDeleteKeepsKey(c, k) == c

\* RedisClient.delete / FakeRedisClient.delete: a missing key is no error.
CacheDelete(c, k) == [x \in DOMAIN c \ {k} |-> c[x]]

\* An await on the cache client suspends the coroutine only on the real one.
Suspends(b) == b = "redis"

VARIABLES
  backend,        \* the client RedisClient.connect installed
  configured,     \* providers whose client id and secret are set
  trip,           \* a token made and decoded by a direct call of security.py
  now, ticks,     \* datetime.utcnow(), and how often it advanced
  cache,          \* the cache client's keys
  users,          \* table User: id -> row
  oauthAccounts,  \* table OAuthAccount: set of rows
  sessions,       \* table Session: id -> row
  nLogins, nUsers, nSessions,   \* counters (nonces issued, user ids, session ids)
  nonces,         \* state nonces a client received in a login redirect
  cookies,        \* session ids a client received in a session_id cookie
  tokens,         \* access tokens a client received in a redirect
  req,            \* the requests in flight: Reqs -> locals
  running,        \* the request that holds the event loop, or 0
  last,           \* the response this step produced, if it ended a request
  stateLog,       \* history: nonce -> its provider, issue time, the callbacks
                  \* that passed state validation, whether one of them has
                  \* deleted the state, the sessions they created
  deleted,        \* history: session ids whose durable record was deleted
  loggedOut,      \* history: session ids of completed logouts
  resolved        \* history: (provider, provider id) -> the user id that
                  \* get_or_create_user last returned for it, and how often

env == <<backend, configured, trip>>
clock == <<now, ticks>>
db == <<users, oauthAccounts, sessions, nUsers, nSessions>>
client == <<nonces, cookies, tokens>>
hist == <<stateLog, deleted, loggedOut, resolved>>
vars == <<env, clock, cache, db, nLogins, client, req, running, last, hist>>

\* -------------------------------------------------------- database service
\* The row of table User as models.User.
UserModel(us, id) == [id |-> id, username |-> us[id].username, email |-> us[id].email]

\* DatabaseService.get_user_by_email: find_unique on the unique column email.
get_user_by_email(us, e) ==
  IF \E id \in DOMAIN us : us[id].email = e
  THEN UserModel(us, CHOOSE id \in DOMAIN us : us[id].email = e)
  ELSE NoUser

\* A lookup that finds no linked account.
get_user_by_oauth_provider_misses(us, accts, p, pid) == NoUser

\* DatabaseService.get_user_by_oauth_provider: find_unique on the unique pair
\* (provider, providerId), with the linked user.
get_user_by_oauth_provider(us, accts, p, pid) ==
  IF \E a \in accts : a.provider = p /\ a.providerId = pid /\ a.userId \in DOMAIN us
  THEN UserModel(us, (CHOOSE a \in accts : a.provider = p /\ a.providerId = pid).userId)
  ELSE NoUser

\* The unique constraints the two find_unique lookups rest on.
EmailTaken(us, e) == \E id \in DOMAIN us : us[id].email = e
AccountTaken(accts, p, pid) == \E a \in accts : a.provider = p /\ a.providerId = pid

OAuthAccount(uid, o) ==
  [userId |-> uid, provider |-> o.provider, providerId |-> o.provider_id, email |-> o.email]

\* A create that no unique constraint guards.
create_user_unconstrained(us, accts, o, id) ==
  LET name == IF o.username # NoName THEN o.username ELSE LocalPart(o.email)
      us2 == [x \in DOMAIN us \cup {id} |->
                IF x = id THEN [username |-> name, email |-> o.email] ELSE us[x]]
  IN [ok |-> TRUE, users |-> us2, accounts |-> accts \cup {OAuthAccount(id, o)},
      user |-> UserModel(us2, id)]

\* A create in two statements: the user row, then the account row, the first
\* kept when the second fails.
create_user_then_account(us, accts, o, id) ==
  IF EmailTaken(us, o.email)
  THEN [ok |-> FALSE, users |-> us, accounts |-> accts, user |-> NoUser]
  ELSE LET name == IF o.username # NoName THEN o.username ELSE LocalPart(o.email)
           us2 == [x \in DOMAIN us \cup {id} |->
                     IF x = id THEN [username |-> name, email |-> o.email] ELSE us[x]]
       IN IF AccountTaken(accts, o.provider, o.provider_id)
          THEN [ok |-> FALSE, users |-> us2, accounts |-> accts, user |-> NoUser]
          ELSE [ok |-> TRUE, users |-> us2, accounts |-> accts \cup {OAuthAccount(id, o)},
                user |-> UserModel(us2, id)]

\* DatabaseService.create_user_with_oauth: one nested create, so both rows or
\* none; a constraint violation is raised to the caller.
create_user_with_oauth(us, accts, o, id) ==
  IF EmailTaken(us, o.email) \/ AccountTaken(accts, o.provider, o.provider_id)
  THEN [ok |-> FALSE, users |-> us, accounts |-> accts, user |-> NoUser]
  ELSE LET name == IF o.username # NoName THEN o.username ELSE LocalPart(o.email)
           us2 == [x \in DOMAIN us \cup {id} |->
                     IF x = id THEN [username |-> name, email |-> o.email] ELSE us[x]]
       IN [ok |-> TRUE, users |-> us2, accounts |-> accts \cup {OAuthAccount(id, o)},
           user |-> UserModel(us2, id)]

\* A link that writes no row.
link_oauth_account_skips(accts, uid, o) == [ok |-> FALSE, accounts |-> accts]

\* A link that takes an account over from its owner.
link_oauth_account_reassigns(accts, uid, o) ==
  [ok |-> TRUE,
   accounts |-> {a \in accts : ~(a.provider = o.provider /\ a.providerId = o.provider_id)}
                  \cup {OAuthAccount(uid, o)}]

\* DatabaseService.link_oauth_account: True, or False when the create failed.
link_oauth_account(accts, uid, o) ==
  IF AccountTaken(accts, o.provider, o.provider_id)
  THEN [ok |-> FALSE, accounts |-> accts]
  ELSE [ok |-> TRUE, accounts |-> accts \cup {OAuthAccount(uid, o)}]

\* A create that returns an id and writes no row.
create_session_writes_nothing(ss, sid, uid, expires_at) == ss

\* A create that replaces the sessions the user already has.
create_session_replacing(ss, sid, uid, expires_at) ==
  [x \in {y \in DOMAIN ss : ss[y].userId # uid} \cup {sid} |->
     IF x = sid THEN [userId |-> uid, expiresAt |-> expires_at] ELSE ss[x]]

\* DatabaseService.create_session, the row written.
create_session(ss, sid, uid, expires_at) ==
  [x \in DOMAIN ss \cup {sid} |->
     IF x = sid THEN [userId |-> uid, expiresAt |-> expires_at] ELSE ss[x]]

\* DatabaseService.get_session: the session with its user, None when there is
\* no row or the row has expired.
get_session(ss, us, sid, t) ==
  IF sid \in DOMAIN ss /\ ss[sid].expiresAt > t
  THEN [found |-> TRUE, user |-> UserModel(us, ss[sid].userId),
        expires_at |-> ss[sid].expiresAt]
  ELSE [found |-> FALSE, user |-> NoUser, expires_at |-> 0]

\* A delete that leaves the row in place.
delete_session_keeps_row(ss, sid) == ss

\* DatabaseService.delete_session: the row is removed; a missing row is no
\* error to the caller.
delete_session(ss, sid) == [x \in DOMAIN ss \ {sid} |-> ss[x]]

\* DatabaseService.delete_expired_sessions: delete_many where expiresAt < now.
ExpiredSessions(ss, t) == {x \in DOMAIN ss : ss[x].expiresAt < t}
\* A sweep that removes every session.
delete_all_sessions(ss, t) == [x \in {} |-> ss[x]]
delete_expired_sessions(ss, t) == [x \in DOMAIN ss \ ExpiredSessions(ss, t) |-> ss[x]]

\* DatabaseService.delete_user: "Delete a user and all associated data", the
\* rows of OAuthAccount and Session that belong to the user go with it.
SessionsOf(ss, uid) == {x \in DOMAIN ss : ss[x].userId = uid}
delete_user(us, accts, ss, uid) ==
  [users |-> [x \in DOMAIN us \ {uid} |-> us[x]],
   accounts |-> {a \in accts : a.userId # uid},
   sessions |-> [x \in DOMAIN ss \ SessionsOf(ss, uid) |-> ss[x]]]

\* ------------------------------------------------------------ oauth2 service
\* The identities a provider can hand back for a code: exchange_google_code
\* derives the username from the e-mail, exchange_github_code takes the login.
OAuthUsers(p) ==
  {[provider |-> p, provider_id |-> pid, email |-> e,
    username |-> IF p = "google" THEN LocalPart(e) ELSE Login(pid)] :
     pid \in 1..MaxPid, e \in Emails}

\* The answer of https://api.github.com/user/emails: a list of entries, each
\* with an address (NoEmail: null) and the primary flag.
GitHubEmailLists ==
  UNION {[1..n -> [email : Emails \cup {NoEmail}, primary : BOOLEAN]] : n \in 0..MaxList}

\* A selection that takes the last entry flagged primary.
primary_email_last(emails, profile) ==
  LET P == {i \in DOMAIN emails : emails[i].primary}
  IN IF P = {} THEN profile
     ELSE emails[CHOOSE i \in P : \A j \in P : j <= i].email

\* exchange_github_code lines 117-120: next() over the entries flagged
\* primary, with the e-mail of the profile as its default.
primary_email(emails, profile) ==
  LET P == {i \in DOMAIN emails : emails[i].primary}
  IN IF P = {} THEN profile
     ELSE emails[CHOOSE i \in P : \A j \in P : i <= j].email

\* exchange_github_code lines 94-131: ValueError without a client; OAuthUser
\* requires an e-mail (models.py line 22), and its validation error is raised
\* inside the try, so it leaves as OAuthError.
NoIdentity == [ok |-> FALSE, error |-> "", identity |-> NoOAuthUser]
exchange_github_code(cfg, pid, emails, profile) ==
  LET e == primary_email(emails, profile)
  IN CASE "github" \notin cfg -> [NoIdentity EXCEPT !.error = "ValueError"]
       [] e = NoEmail -> [NoIdentity EXCEPT !.error = "OAuthError"]
       [] OTHER -> [NoIdentity EXCEPT !.ok = TRUE,
                      !.identity = [provider |-> "github", provider_id |-> pid,
                                    email |-> e, username |-> Login(pid)]]

\* ------------------------------------------------------------ credentials
\* security.create_access_token: the claims plus exp, signed.
NoClaims == [sub |-> 0, username |-> NoName, email |-> NoEmail, exp |-> 0]
\* A token whose exp is the moment it is made.
create_access_token_expiring_now(data, t) ==
  [k \in DOMAIN data \cup {"exp"} |-> IF k = "exp" THEN t ELSE data[k]]

\* data.copy(), update({"exp": expire}), jwt.encode: a claim exp of data is
\* replaced.
create_access_token(data, t) ==
  [k \in DOMAIN data \cup {"exp"} |->
     IF k = "exp" THEN t + ACCESS_TOKEN_EXPIRE_MINUTES * 60 ELSE data[k]]

\* A bearer credential: none, a token as issued, a token whose payload or
\* signature was altered, or a string that is no JWT.
NoCred == [form |-> "none", claims |-> NoClaims]
Creds ==
  {NoCred, [form |-> "garbage", claims |-> NoClaims]}
    \cup {[form |-> f, claims |-> c] : f \in {"signed", "tampered"}, c \in tokens}

\* A decoder with one error for every failure.
decode_access_token_one_error(cred, t) ==
  IF cred.form = "signed" /\ cred.claims.exp > t
  THEN [ok |-> TRUE, error |-> "", payload |-> cred.claims]
  ELSE [ok |-> FALSE, error |-> "InvalidTokenError", payload |-> NoClaims]

\* security.decode_access_token: the payload, or the PyJWT exception raised.
\* jwt.decode(token, key, algorithms) checks the signature, then the
\* registered claims: exp must lie ahead, nbf must not, and a token with an
\* aud claim is refused when the call names no audience.
decode_access_token(cred, t) ==
  CASE cred.form \in {"garbage", "tampered"} ->
         [ok |-> FALSE, error |-> "DecodeError", payload |-> NoClaims]
    [] cred.form = "signed" /\ cred.claims.exp <= t ->
         [ok |-> FALSE, error |-> "ExpiredSignatureError", payload |-> NoClaims]
    [] cred.form = "signed" /\ "nbf" \in DOMAIN cred.claims /\ cred.claims.nbf > t ->
         [ok |-> FALSE, error |-> "InvalidTokenError", payload |-> NoClaims]
    [] cred.form = "signed" /\ "aud" \in DOMAIN cred.claims ->
         [ok |-> FALSE, error |-> "InvalidTokenError", payload |-> NoClaims]
    [] OTHER -> [ok |-> TRUE, error |-> "", payload |-> cred.claims]

\* The exceptions `except JWTError` catches: jose's, none of PyJWT's.
IsJoseJWTError(error) == FALSE

\* A token check that also asks for the user's row.
get_current_user_from_token_and_table(cred, t) ==
  LET d == decode_access_token(cred, t) IN
  IF d.ok /\ d.payload.sub \in DOMAIN users
  THEN [user |-> [id |-> d.payload.sub, username |-> d.payload.username,
                  email |-> d.payload.email],
        raised |-> "", status |-> 200, detail |-> ""]
  ELSE [user |-> NoUser, raised |-> "HTTPException", status |-> 401,
        detail |-> "Invalid token"]

\* dependencies.get_current_user_from_token: the user built from the claims,
\* an HTTPException, or the exception that escapes.
get_current_user_from_token(cred, t) ==
  LET d == decode_access_token(cred, t) IN
  CASE d.ok /\ d.payload.sub = 0 ->
         [user |-> NoUser, raised |-> "HTTPException", status |-> 401,
          detail |-> "Invalid token: missing user ID"]
    [] d.ok ->
         [user |-> [id |-> d.payload.sub, username |-> d.payload.username,
                    email |-> d.payload.email],
          raised |-> "", status |-> 200, detail |-> ""]
    [] IsJoseJWTError(d.error) ->
         [user |-> NoUser, raised |-> "HTTPException", status |-> 401,
          detail |-> "Invalid token"]
    [] OTHER ->
         [user |-> NoUser, raised |-> d.error, status |-> 500, detail |-> d.error]

\* ---------------------------------------------------------------- requests
RECURSIVE SumTo(_, _)
SumTo(f, n) == IF n = 0 THEN 0 ELSE f[n] + SumTo(f, n - 1)
PassCount == SumTo([n \in DOMAIN stateLog |-> stateLog[n].passes], nLogins)

\* History: get_or_create_user returned user u for the identity o.
IdentityKey(o) == <<o.provider, o.provider_id>>
Returned(res, o, u) ==
  LET k == IdentityKey(o) IN
  [x \in DOMAIN res \cup {k} |->
     IF x = k
     THEN [id |-> u.id, calls |-> IF k \in DOMAIN res THEN res[k].calls + 1 ELSE 1]
     ELSE res[x]]

Idle ==
  [kind |-> "idle", pc |-> "idle", provider |-> "", state |-> 0, cred |-> NoCred,
   cookie |-> 0, oauth_user |-> NoOAuthUser, user |-> NoUser, token |-> NoClaims,
   expires_at |-> 0, sid |-> 0, status |-> 0, detail |-> "", via |-> "",
   looked |-> FALSE, removed |-> FALSE]
New(k) == [Idle EXCEPT !.kind = k]

\* A request arrives in the first free slot (the slots are interchangeable).
\* No request starts or resumes before the last response has left.
Free(r) ==
  /\ last = Idle /\ running = 0
  /\ req[r].pc = "idle" /\ \A q \in 1..(r - 1) : req[q].pc # "idle"
CanRun(r) == last = Idle /\ (running = 0 \/ running = r)
At(r, k, p) == req[r].kind = k /\ req[r].pc = p /\ CanRun(r)

\* The request's coroutine goes on to its next statement.
Goes(r, q) == req' = [req EXCEPT ![r] = q] /\ UNCHANGED last
\* The request ends: a response, or an exception FastAPI answers with 500.
Ends(r, q, st, d) ==
  /\ req' = [req EXCEPT ![r] = Idle]
  /\ last' = [q EXCEPT !.pc = "done", !.status = st, !.detail = d]

\* A direct call of security.py, as the unit tests make it: no call yet.
NoOut == [ok |-> FALSE, error |-> "", payload |-> NoClaims]
NoTrip ==
  [stage |-> "none", data |-> <<>>, at |-> 0, cred |-> NoCred, read_at |-> 0, out |-> NoOut]

Init ==
  /\ backend \in Backends
  /\ configured \in SUBSET Providers
  /\ trip = NoTrip
  /\ now = 0 /\ ticks = 0
  /\ cache = <<>>
  /\ users = <<>>
  /\ oauthAccounts = {}
  /\ sessions = <<>>
  /\ nLogins = 0 /\ nUsers = 0 /\ nSessions = 0
  /\ nonces = {} /\ cookies = {} /\ tokens = {}
  /\ req = [r \in Reqs |-> Idle]
  /\ running = 0
  /\ last = Idle
  /\ stateLog = <<>>
  /\ deleted = {} /\ loggedOut = {}
  /\ resolved = <<>>

\* ------------------------------------------------------------------ clock
Tick ==
  /\ last = Idle /\ running = 0
  /\ ticks < MaxTicks
  /\ \E d \in Steps : now' = now + d
  /\ ticks' = ticks + 1
  /\ UNCHANGED <<env, cache, db, nLogins, client, req, running, last, hist>>

\* ------------------------------------------------------------ oauth_login
\* Lines 21-30: the provider check, generate_state and the state store write.
LoginStart(r, p) ==
  /\ Free(r)
  /\ IF p \notin Providers
     THEN /\ Ends(r, [New("login") EXCEPT !.provider = p], 400, "Unsupported OAuth provider")
          /\ UNCHANGED <<cache, nLogins, stateLog>>
     ELSE /\ nLogins < MaxLogins
          /\ nLogins' = nLogins + 1
          /\ cache' = CacheSet(backend, cache, StateKey(nLogins + 1), StateValue(p),
                               STATE_TTL, now)
          /\ stateLog' = [n \in 1..(nLogins + 1) |->
                            IF n <= nLogins THEN stateLog[n]
                            ELSE [provider |-> p, at |-> now, passes |-> 0,
                                  consumed |-> FALSE, sessions |-> 0]]
          /\ Goes(r, [New("login") EXCEPT !.pc = "auth_url", !.provider = p,
                                          !.state = nLogins + 1])
  /\ UNCHANGED <<env, clock, db, client, running, deleted, loggedOut, resolved>>

\* Lines 32-43: get_google_auth_url / get_github_auth_url and the redirect.
LoginAuthUrl(r) ==
  /\ At(r, "login", "auth_url")
  /\ IF req[r].provider \in configured
     THEN Ends(r, req[r], 307, "redirect to provider")
     ELSE Ends(r, req[r], 500, "OAuth provider not configured")
  /\ UNCHANGED <<env, clock, cache, db, nLogins, client, running, hist>>

\* ---------------------------------------------------------- oauth_callback
\* The error query parameter: absent or empty (`if error:` is false for
\* both), or a value the provider sends; and the detail f"OAuth error:
\* {error}" of lines 47-51.
NoError == ""
Errors == {NoError, "access_denied", "server_error"}
\* A detail that leaves the error value out.
ErrorDetailFixed(e) == "OAuth error"
ErrorDetail(e) ==
  CASE e = "access_denied" -> "OAuth error: access_denied"
    [] e = "server_error" -> "OAuth error: server_error"

\* Lines 47-58: a callback arrives; an error parameter ends it at once, then
\* the state lookup and its check.  bytes.decode() gives the stored provider;
\* str has no decode, so the check raises AttributeError.  The nonce is one a
\* login redirect carried, or 0 for one never issued.
CallbackStart(r, p, n, err) ==
  /\ Free(r)
  /\ LET q == [New("callback") EXCEPT !.provider = p, !.state = n]
         got == CacheGet(backend, cache, StateKey(n), now)
     IN CASE err # NoError ->
               /\ Ends(r, q, 400, ErrorDetail(err))
               /\ UNCHANGED <<running, stateLog>>
          [] got.type = "None" ->
               /\ Ends(r, q, 400, "Invalid state parameter")
               /\ UNCHANGED <<running, stateLog>>
          [] got.type = "str" ->
               /\ Ends(r, q, 500, "AttributeError")
               /\ UNCHANGED <<running, stateLog>>
          [] got.type = "bytes" /\ got.val.prov # p ->
               /\ Ends(r, q, 400, "Invalid state parameter")
               /\ UNCHANGED <<running, stateLog>>
          [] OTHER ->
               /\ PassCount < MaxCallbacks
               /\ Goes(r, [q EXCEPT !.pc = "state_delete"])
               /\ running' = IF Suspends(backend) THEN 0 ELSE r
               /\ stateLog' = [stateLog EXCEPT ![n].passes = @ + 1]
  /\ UNCHANGED <<env, clock, cache, db, nLogins, client, deleted, loggedOut, resolved>>

\* Line 60: the state is deleted; the provider call that follows suspends.
CallbackStateDelete(r) ==
  /\ At(r, "callback", "state_delete")
  /\ cache' = CacheDelete(cache, StateKey(req[r].state))
  /\ running' = 0
  /\ stateLog' = [stateLog EXCEPT ![req[r].state].consumed = TRUE]
  /\ Goes(r, [req[r] EXCEPT !.pc = "exchange"])
  /\ UNCHANGED <<env, clock, db, nLogins, client, deleted, loggedOut, resolved>>

\* A handler without the except clause for OAuthError.
CallbackExchangeUncaught(r, ok, o) ==
  /\ At(r, "callback", "exchange")
  /\ CASE req[r].provider \notin configured -> Ends(r, req[r], 500, "ValueError")
       [] ~ok -> Ends(r, req[r], 500, "OAuthError")
       [] OTHER -> Goes(r, [req[r] EXCEPT !.pc = "find_oauth", !.oauth_user = o])
  /\ UNCHANGED <<env, clock, cache, db, nLogins, client, running, hist>>

\* Lines 64-73 and 108-112: exchange_google_code / exchange_github_code.  An
\* unconfigured client raises ValueError, which the handler does not catch;
\* a failed exchange raises OAuthError.
CallbackExchange(r, ok, o) ==
  /\ At(r, "callback", "exchange")
  /\ CASE req[r].provider \notin configured -> Ends(r, req[r], 500, "ValueError")
       [] ~ok -> Ends(r, req[r], 400, "OAuth authentication failed")
       [] OTHER -> Goes(r, [req[r] EXCEPT !.pc = "find_oauth", !.oauth_user = o])
  /\ UNCHANGED <<env, clock, cache, db, nLogins, client, running, hist>>

\* get_or_create_user lines 158-164: the lookup by (provider, provider id).
CallbackFindByOAuth(r) ==
  /\ At(r, "callback", "find_oauth")
  /\ LET o == req[r].oauth_user
         u == get_user_by_oauth_provider(users, oauthAccounts, o.provider, o.provider_id)
     IN IF u # NoUser
        THEN /\ Goes(r, [req[r] EXCEPT !.pc = "issue_token", !.user = u])
             /\ resolved' = Returned(resolved, o, u)
        ELSE /\ Goes(r, [req[r] EXCEPT !.pc = "find_email"])
             /\ UNCHANGED resolved
  /\ UNCHANGED <<env, clock, cache, db, nLogins, client, running,
                 stateLog, deleted, loggedOut>>

\* get_or_create_user lines 167-169: the lookup by e-mail.
CallbackFindByEmail(r) ==
  /\ At(r, "callback", "find_email")
  /\ LET u == get_user_by_email(users, req[r].oauth_user.email)
     IN IF u # NoUser
        THEN Goes(r, [req[r] EXCEPT !.pc = "link", !.user = u])
        ELSE Goes(r, [req[r] EXCEPT !.pc = "create"])
  /\ UNCHANGED <<env, clock, cache, db, nLogins, client, running, hist>>

\* get_or_create_user lines 171-172: link_oauth_account, its result unread
\* by the code (via keeps it for the record).
CallbackLink(r) ==
  /\ At(r, "callback", "link")
  /\ LET res == link_oauth_account(oauthAccounts, req[r].user.id, req[r].oauth_user) IN
     /\ oauthAccounts' = res.accounts
     /\ Goes(r, [req[r] EXCEPT !.pc = "issue_token",
                               !.via = IF res.ok THEN "linked" ELSE "link refused"])
  /\ resolved' = Returned(resolved, req[r].oauth_user, req[r].user)
  /\ UNCHANGED <<env, clock, cache, users, sessions, nUsers, nSessions, nLogins,
                 client, running, stateLog, deleted, loggedOut>>

\* get_or_create_user line 175: create_user_with_oauth; its exception is not
\* caught by the handler.
CallbackCreate(r) ==
  /\ At(r, "callback", "create")
  /\ LET res == create_user_with_oauth(users, oauthAccounts, req[r].oauth_user, nUsers + 1) IN
     /\ users' = res.users
     /\ nUsers' = IF res.ok THEN nUsers + 1 ELSE nUsers
     /\ oauthAccounts' = res.accounts
     /\ IF res.ok
        THEN /\ Goes(r, [req[r] EXCEPT !.pc = "issue_token", !.user = res.user])
             /\ resolved' = Returned(resolved, req[r].oauth_user, res.user)
        ELSE /\ Ends(r, req[r], 500, "UniqueViolationError")
             /\ UNCHANGED resolved
  /\ UNCHANGED <<env, clock, cache, sessions, nSessions, nLogins,
                 client, running, stateLog, deleted, loggedOut>>

\* A handler that makes the token only after the session.
CallbackIssueTokenLater(r) ==
  /\ At(r, "callback", "issue_token")
  /\ Goes(r, [req[r] EXCEPT !.pc = "create_session",
                            !.expires_at = now + ACCESS_TOKEN_EXPIRE_MINUTES * 60])
  /\ UNCHANGED <<env, clock, cache, db, nLogins, client, running, hist>>

\* Lines 76-78 and create_session lines 167-168: the access token and the
\* session expiry, both computed from the clock before the session is written.
CallbackIssueToken(r) ==
  /\ At(r, "callback", "issue_token")
  /\ LET u == req[r].user IN
     Goes(r, [req[r] EXCEPT
                !.pc = "create_session",
                !.token = create_access_token(
                            [sub |-> u.id, username |-> u.username, email |-> u.email], now),
                !.expires_at = now + ACCESS_TOKEN_EXPIRE_MINUTES * 60])
  /\ UNCHANGED <<env, clock, cache, db, nLogins, client, running, hist>>

\* Line 81: db_service.create_session writes the session row.
CallbackCreateSession(r) ==
  /\ At(r, "callback", "create_session")
  /\ nSessions' = nSessions + 1
  /\ sessions' = create_session(sessions, nSessions + 1, req[r].user.id, req[r].expires_at)
  /\ stateLog' = [stateLog EXCEPT ![req[r].state].sessions = @ + 1]
  /\ Goes(r, [req[r] EXCEPT !.pc = "cache_session", !.sid = nSessions + 1])
  /\ UNCHANGED <<env, clock, cache, users, oauthAccounts, nUsers, nLogins,
                 client, running, deleted, loggedOut, resolved>>

\* Lines 84-106: the cache shadow of the session, then the redirect with the
\* token in its query and the session_id cookie.
CallbackCacheSession(r) ==
  /\ At(r, "callback", "cache_session")
  /\ cache' = CacheSet(backend, cache, SessionKey(req[r].sid), SessionValue(req[r].user),
                       ACCESS_TOKEN_EXPIRE_MINUTES * 60, now)
  /\ Ends(r, req[r], 307, "redirect to frontend")
  /\ UNCHANGED <<env, clock, db, nLogins, client, running, hist>>

\* -------------------------------------------------------- get_current_user
\* The dependency has its user: /auth/me returns it, logout goes on to its
\* handler (lines 116-124), which with no cookie only answers.
Authenticated(r, q) ==
  CASE q.kind \in {"me", "optional"} -> Ends(r, q, 200, "current user")
    [] q.cookie = 0 -> Ends(r, q, 200, "Logged out successfully")
    [] OTHER -> Goes(r, [q EXCEPT !.pc = "logout_db"])

\* get_optional_current_user lines 102-105: an HTTPException of
\* get_current_user becomes the result None; any other exception passes.
Raises(r, q, st, d) ==
  IF q.kind = "optional" /\ st < 500
  THEN Ends(r, q, 200, "None")
  ELSE Ends(r, q, st, d)

\* A check that sends every request to the session path.
TokenPresentedNever(cred) == FALSE

\* get_current_user line 83, `if credentials:`.
TokenPresented(cred) == cred # NoCred

\* get_current_user lines 83-96 with get_current_user_from_token, and
\* get_current_user_from_session up to its database read (lines 47-60).
AuthStart(r, k, cred, cookie) ==
  /\ Free(r)
  /\ LET q == [New(k) EXCEPT !.cred = cred, !.cookie = cookie]
         t == get_current_user_from_token(cred, now)
         s == get_session(sessions, users, cookie, now)
     IN CASE TokenPresented(cred) /\ t.raised # "" -> Raises(r, q, t.status, t.detail)
          [] TokenPresented(cred) -> Authenticated(r, [q EXCEPT !.user = t.user, !.via = "token"])
          [] cookie = 0 -> Raises(r, q, 401, "Not authenticated")
          [] s.found -> Authenticated(r, [q EXCEPT !.user = s.user, !.via = "db",
                                                   !.looked = TRUE])
          [] OTHER -> Goes(r, [q EXCEPT !.pc = "auth_cache", !.looked = TRUE])
  /\ UNCHANGED <<env, clock, cache, db, nLogins, client, running, hist>>

\* A lookup without the cache fallback.
AuthCacheGetDenies(r) ==
  /\ req[r].kind \in {"me", "logout", "optional"} /\ req[r].pc = "auth_cache" /\ CanRun(r)
  /\ Raises(r, req[r], 401, "Not authenticated")
  /\ UNCHANGED <<env, clock, cache, db, nLogins, client, running, hist>>

\* get_current_user_from_session lines 62-75: the cache fallback.
AuthCacheGet(r) ==
  /\ req[r].kind \in {"me", "logout", "optional"} /\ req[r].pc = "auth_cache" /\ CanRun(r)
  /\ LET got == CacheGet(backend, cache, SessionKey(req[r].cookie), now) IN
     CASE got.type = "None" -> Raises(r, req[r], 401, "Not authenticated")
       [] got.type = "str" -> Ends(r, req[r], 500, "AttributeError")
       [] OTHER -> Authenticated(r, [req[r] EXCEPT !.user = got.val.user, !.via = "cache"])
  /\ UNCHANGED <<env, clock, cache, db, nLogins, client, running, hist>>

\* ------------------------------------------------------------------ logout
\* Line 119: db_service.delete_session.
LogoutDbDelete(r) ==
  /\ At(r, "logout", "logout_db")
  /\ sessions' = delete_session(sessions, req[r].cookie)
  /\ deleted' = deleted \cup ({req[r].cookie} \cap DOMAIN sessions)
  /\ Goes(r, [req[r] EXCEPT !.pc = "logout_cache",
                            !.removed = req[r].cookie \in DOMAIN sessions])
  /\ UNCHANGED <<env, clock, cache, users, oauthAccounts, nUsers, nSessions, nLogins,
                 client, running, stateLog, loggedOut, resolved>>

\* Lines 120-124: the cache delete and the answer.
LogoutCacheDelete(r) ==
  /\ At(r, "logout", "logout_cache")
  /\ cache' = CacheDelete(cache, SessionKey(req[r].cookie))
  /\ loggedOut' = loggedOut \cup {req[r].cookie}
  /\ Ends(r, req[r], 200, "Logged out successfully")
  /\ UNCHANGED <<env, clock, db, nLogins, client, running, stateLog, deleted, resolved>>

\* -------------------------------------------------------- get_session_info
\* Lines 132-141: the cookie and the database read.
SessionInfoStart(r, cookie) ==
  /\ Free(r)
  /\ LET q == [New("session") EXCEPT !.cookie = cookie]
         s == get_session(sessions, users, cookie, now)
     IN CASE cookie = 0 -> Ends(r, q, 401, "No active session")
          [] s.found -> Ends(r, [q EXCEPT !.user = s.user, !.expires_at = s.expires_at,
                                          !.via = "db", !.looked = TRUE],
                             200, "session data")
          [] OTHER -> Goes(r, [q EXCEPT !.pc = "info_cache", !.looked = TRUE])
  /\ UNCHANGED <<env, clock, cache, db, nLogins, client, running, hist>>

\* Lines 143-152: the cache fallback.
SessionInfoCacheGet(r) ==
  /\ At(r, "session", "info_cache")
  /\ LET got == CacheGet(backend, cache, SessionKey(req[r].cookie), now) IN
     CASE got.type = "None" -> Ends(r, req[r], 401, "Session expired or invalid")
       [] got.type = "str" -> Ends(r, req[r], 500, "AttributeError")
       [] OTHER -> Ends(r, [req[r] EXCEPT !.user = got.val.user, !.via = "cache"],
                        200, "session data")
  /\ UNCHANGED <<env, clock, cache, db, nLogins, client, running, hist>>

\* --------------------------------------------- the two session read paths
\* dependencies.get_current_user_from_session, lines 47-75, as one call: the
\* user it returns (NoUser: None) or the exception it raises.
get_current_user_from_session(ss, us, b, c, cookie, t) ==
  LET s == get_session(ss, us, cookie, t)
      got == CacheGet(b, c, SessionKey(cookie), t)
  IN CASE cookie = 0 -> [raised |-> "", user |-> NoUser]
       [] s.found -> [raised |-> "", user |-> s.user]
       [] got.type = "None" -> [raised |-> "", user |-> NoUser]
       [] got.type = "str" -> [raised |-> "AttributeError", user |-> NoUser]
       [] OTHER -> [raised |-> "", user |-> got.val.user]

\* A handler that reads the database only.
get_session_info_database_only(ss, us, b, c, cookie, t) ==
  LET s == get_session(ss, us, cookie, t)
  IN IF cookie # 0 /\ s.found
     THEN [status |-> 200, user |-> s.user]
     ELSE [status |-> 401, user |-> NoUser]

\* auth_routes.get_session_info, lines 130-152, as one call: the status of
\* its answer and the user its body describes.
get_session_info(ss, us, b, c, cookie, t) ==
  LET s == get_session(ss, us, cookie, t)
      got == CacheGet(b, c, SessionKey(cookie), t)
  IN CASE cookie = 0 -> [status |-> 401, user |-> NoUser]
       [] s.found -> [status |-> 200, user |-> s.user]
       [] got.type = "None" -> [status |-> 401, user |-> NoUser]
       [] got.type = "str" -> [status |-> 500, user |-> NoUser]
       [] OTHER -> [status |-> 200, user |-> got.val.user]

\* ------------------------------------------------------------------- sweep
\* DatabaseService.delete_expired_sessions, run by a periodic job.
Sweep ==
  /\ last = Idle /\ running = 0
  /\ ExpiredSessions(sessions, now) # {}
  /\ sessions' = delete_expired_sessions(sessions, now)
  /\ deleted' = deleted \cup ExpiredSessions(sessions, now)
  /\ UNCHANGED <<env, clock, cache, users, oauthAccounts, nUsers, nSessions, nLogins,
                 client, req, running, last, stateLog, loggedOut, resolved>>

\* ------------------------------------------------------------- delete_user
\* DatabaseService.delete_user, called for a user of the table.
DeleteUser(u) ==
  /\ last = Idle /\ running = 0
  /\ u \in DOMAIN users
  /\ LET res == delete_user(users, oauthAccounts, sessions, u) IN
     /\ users' = res.users
     /\ oauthAccounts' = res.accounts
     /\ sessions' = res.sessions
  /\ deleted' = deleted \cup SessionsOf(sessions, u)
  /\ UNCHANGED <<env, clock, cache, nUsers, nSessions, nLogins, client, req, running,
                 last, stateLog, loggedOut, resolved>>

\* ------------------------------------------------------------------ faults
\* Line 53 with the Redis server gone after connect: RedisClient.get has no
\* except clause and the handler catches only OAuthError, so the client's
\* ConnectionError ends the callback.  FakeRedisClient.get cannot raise.
CallbackStateGetFails(r, p, n) ==
  /\ Free(r)
  /\ backend = "redis"
  /\ Ends(r, [New("callback") EXCEPT !.provider = p, !.state = n], 500, "ConnectionError")
  /\ UNCHANGED <<env, clock, cache, db, nLogins, client, running, hist>>

\* get_google_auth_url lines 39-41 with the discovery request failing: the
\* httpx call stands in no try block, and oauth_login catches only
\* ValueError, so httpx's exception ends the login.  get_github_auth_url
\* sends no request.
LoginDiscoveryFails(r) ==
  /\ At(r, "login", "auth_url")
  /\ req[r].provider = "google" /\ "google" \in configured
  /\ Ends(r, req[r], 500, "ConnectError")
  /\ UNCHANGED <<env, clock, cache, db, nLogins, client, running, hist>>

\* get_or_create_user line 175 with the database failing:
\* create_user_with_oauth logs and re-raises, and nothing of the nested
\* create is written.
CallbackCreateFails(r) ==
  /\ At(r, "callback", "create")
  /\ Ends(r, req[r], 500, "PrismaError")
  /\ UNCHANGED <<env, clock, cache, db, nLogins, client, running, hist>>

\* get_current_user_from_session line 52 with the database failing:
\* get_session logs the error and returns None, so the lookup goes on to the
\* cache whatever the table holds.
AuthDbReadFails(r, k, cookie) ==
  /\ Free(r)
  /\ cookie # 0
  /\ Goes(r, [New(k) EXCEPT !.cookie = cookie, !.pc = "auth_cache", !.looked = TRUE])
  /\ UNCHANGED <<env, clock, cache, db, nLogins, client, running, hist>>

\* get_session_info line 140 with the database failing, likewise.
SessionInfoDbReadFails(r, cookie) ==
  /\ Free(r)
  /\ cookie # 0
  /\ Goes(r, [New("session") EXCEPT !.cookie = cookie, !.pc = "info_cache",
                                    !.looked = TRUE])
  /\ UNCHANGED <<env, clock, cache, db, nLogins, client, running, hist>>

\* get_or_create_user lines 171-172 with the database failing:
\* link_oauth_account logs the error and returns False, which the caller
\* does not read, so the user found by e-mail is returned all the same.
CallbackLinkFails(r) ==
  /\ At(r, "callback", "link")
  /\ Goes(r, [req[r] EXCEPT !.pc = "issue_token", !.via = "link refused"])
  /\ resolved' = Returned(resolved, req[r].oauth_user, req[r].user)
  /\ UNCHANGED <<env, clock, cache, db, nLogins, client, running,
                 stateLog, deleted, loggedOut>>

\* Line 81 with the database failing: create_session logs and re-raises, so
\* the handler ends before the cache write and the response.
CallbackCreateSessionFails(r) ==
  /\ At(r, "callback", "create_session")
  /\ Ends(r, req[r], 500, "PrismaError")
  /\ UNCHANGED <<env, clock, cache, db, nLogins, client, running, hist>>

\* ------------------------------------------------------------- security.py
\* The claim sets handed to create_access_token: any of the keys, each with a
\* value that as a time is past or is later than every moment of the clock.
Later == 3 * SessionTTL
ClaimKeys == {"sub", "role", "aud", "nbf", "exp"}
ClaimSets == UNION {[S -> {0, Later}] : S \in SUBSET ClaimKeys}

\* create_access_token(data=d), lines 10-15.
TripIssue(d) ==
  /\ trip.stage = "none"
  /\ trip' = [NoTrip EXCEPT !.stage = "issued", !.data = d, !.at = now,
                            !.cred = [form |-> "signed",
                                      claims |-> create_access_token(d, now)]]
  /\ UNCHANGED <<backend, configured, clock, cache, db, nLogins, client, req,
                 running, last, hist>>

\* decode_access_token(token), lines 17-29.
TripDecode ==
  /\ trip.stage = "issued"
  /\ trip' = [trip EXCEPT !.stage = "decoded", !.read_at = now,
                          !.out = decode_access_token(trip.cred, now)]
  /\ UNCHANGED <<backend, configured, clock, cache, db, nLogins, client, req,
                 running, last, hist>>

\* -------------------------------------------------- exchange_github_code
\* Lines 107-115: GitHub answers the two requests: the profile of account
\* pid with its e-mail (NoEmail: null), and the list of its addresses.
GitHubAnswers(pid, emails, profile) ==
  /\ trip.stage = "none"
  /\ trip' = [stage |-> "fetched", pid |-> pid, emails |-> emails,
              profile |-> profile, out |-> NoIdentity]
  /\ UNCHANGED <<backend, configured, clock, cache, db, nLogins, client, req,
                 running, last, hist>>

\* exchange_github_code(code, redirect_uri) on these answers.
GitHubExchange ==
  /\ trip.stage = "fetched"
  /\ trip' = [trip EXCEPT !.stage = "exchanged",
                          !.out = exchange_github_code(configured, trip.pid,
                                                       trip.emails, trip.profile)]
  /\ UNCHANGED <<backend, configured, clock, cache, db, nLogins, client, req,
                 running, last, hist>>

\* ---------------------------------------------------------------- client
\* The response reaches the client, which keeps what it carries: the state
\* of a login redirect, the token and the cookie of a callback redirect.
Deliver ==
  /\ last # Idle
  /\ last' = Idle
  /\ nonces' = IF last.kind = "login" /\ last.status = 307
               THEN nonces \cup {last.state} ELSE nonces
  /\ tokens' = IF last.kind = "callback" /\ last.status = 307
               THEN tokens \cup {last.token} ELSE tokens
  /\ cookies' = IF last.kind = "callback" /\ last.status = 307
                THEN cookies \cup {last.sid} ELSE cookies
  /\ UNCHANGED <<env, clock, cache, db, nLogins, req, running, hist>>

\* ------------------------------------------------------------------- next
\* Spec: logins and callbacks, interleaved in every way.
Next ==
  \/ Deliver
  \/ Tick
  \/ last = Idle /\ \E r \in Reqs, p \in PathProviders : LoginStart(r, p)
  \/ \E r \in Reqs : LoginAuthUrl(r)
  \/ last = Idle /\ \E r \in Reqs, p \in PathProviders, n \in nonces \cup {0}, err \in Errors :
       CallbackStart(r, p, n, err)
  \/ \E r \in Reqs : CallbackStateDelete(r)
  \/ \E r \in Reqs : req[r].pc = "exchange" /\ \E o \in OAuthUsers(req[r].provider) : CallbackExchange(r, TRUE, o)
  \/ \E r \in Reqs : CallbackExchange(r, FALSE, NoOAuthUser)
  \/ \E r \in Reqs : CallbackFindByOAuth(r)
  \/ \E r \in Reqs : CallbackFindByEmail(r)
  \/ \E r \in Reqs : CallbackLink(r)
  \/ \E r \in Reqs : CallbackCreate(r)
  \/ \E r \in Reqs : CallbackIssueToken(r)
  \/ \E r \in Reqs : CallbackCreateSession(r)
  \/ \E r \in Reqs : CallbackCacheSession(r)

Spec == Init /\ [][Next]_vars

\* SpecSessions: the requests of clients that present the session cookie and
\* the sweep, interleaved in every way, between sign-ins that run one at a
\* time.
NoRequest == \A q \in Reqs : req[q].pc = "idle"
SigningIn == \E q \in Reqs : req[q].kind \in {"login", "callback"}

NextSessions ==
  \/ Deliver
  \/ Tick
  \/ Sweep
  \/ NoRequest /\ last = Idle /\ \E r \in Reqs, p \in PathProviders : LoginStart(r, p)
  \/ \E r \in Reqs : LoginAuthUrl(r)
  \/ NoRequest /\ last = Idle /\ \E r \in Reqs, p \in PathProviders, n \in nonces \cup {0}, err \in Errors :
       CallbackStart(r, p, n, err)
  \/ \E r \in Reqs : CallbackStateDelete(r)
  \/ \E r \in Reqs : req[r].pc = "exchange" /\ \E o \in OAuthUsers(req[r].provider) : CallbackExchange(r, TRUE, o)
  \/ \E r \in Reqs : CallbackExchange(r, FALSE, NoOAuthUser)
  \/ \E r \in Reqs : CallbackFindByOAuth(r)
  \/ \E r \in Reqs : CallbackFindByEmail(r)
  \/ \E r \in Reqs : CallbackLink(r)
  \/ \E r \in Reqs : CallbackCreate(r)
  \/ \E r \in Reqs : CallbackIssueToken(r)
  \/ \E r \in Reqs : CallbackCreateSession(r)
  \/ \E r \in Reqs : CallbackCacheSession(r)
  \/ ~SigningIn /\ last = Idle /\ \E r \in Reqs, k \in {"me", "logout"}, cookie \in cookies \cup {0} :
       AuthStart(r, k, NoCred, cookie)
  \/ \E r \in Reqs : AuthCacheGet(r)
  \/ \E r \in Reqs : LogoutDbDelete(r)
  \/ \E r \in Reqs : LogoutCacheDelete(r)
  \/ ~SigningIn /\ last = Idle /\ \E r \in Reqs, cookie \in cookies \cup {0} : SessionInfoStart(r, cookie)
  \/ \E r \in Reqs : SessionInfoCacheGet(r)

SpecSessions == Init /\ [][NextSessions]_vars

\* SpecTokens: requests one at a time, with every bearer credential and
\* cookie a client can present, the sweep and the deletion of users.
NextTokens ==
  \/ Deliver
  \/ Tick
  \/ Sweep
  \/ NoRequest /\ \E u \in DOMAIN users : DeleteUser(u)
  \/ NoRequest /\ last = Idle /\ \E r \in Reqs, p \in PathProviders : LoginStart(r, p)
  \/ \E r \in Reqs : LoginAuthUrl(r)
  \/ NoRequest /\ last = Idle /\ \E r \in Reqs, p \in PathProviders, n \in nonces \cup {0}, err \in Errors :
       CallbackStart(r, p, n, err)
  \/ \E r \in Reqs : CallbackStateDelete(r)
  \/ \E r \in Reqs : req[r].pc = "exchange" /\ \E o \in OAuthUsers(req[r].provider) : CallbackExchange(r, TRUE, o)
  \/ \E r \in Reqs : CallbackExchange(r, FALSE, NoOAuthUser)
  \/ \E r \in Reqs : CallbackFindByOAuth(r)
  \/ \E r \in Reqs : CallbackFindByEmail(r)
  \/ \E r \in Reqs : CallbackLink(r)
  \/ \E r \in Reqs : CallbackCreate(r)
  \/ \E r \in Reqs : CallbackIssueToken(r)
  \/ \E r \in Reqs : CallbackCreateSession(r)
  \/ \E r \in Reqs : CallbackCacheSession(r)
  \/ NoRequest /\ last = Idle /\ \E r \in Reqs, k \in {"me", "logout", "optional"}, cred \in Creds, cookie \in cookies \cup {0} :
       AuthStart(r, k, cred, cookie)
  \/ \E r \in Reqs : AuthCacheGet(r)
  \/ \E r \in Reqs : LogoutDbDelete(r)
  \/ \E r \in Reqs : LogoutCacheDelete(r)
  \/ NoRequest /\ last = Idle /\ \E r \in Reqs, cookie \in cookies \cup {0} : SessionInfoStart(r, cookie)
  \/ \E r \in Reqs : SessionInfoCacheGet(r)

SpecTokens == Init /\ [][NextTokens]_vars

\* SpecFaults: the logins and callbacks of Spec, with the cache server or the
\* database failing at any call that lets the failure through.
NextFaults ==
  \/ Next
  \/ last = Idle /\ \E r \in Reqs, p \in PathProviders, n \in nonces \cup {0} :
       CallbackStateGetFails(r, p, n)
  \/ \E r \in Reqs : LoginDiscoveryFails(r)
  \/ \E r \in Reqs : CallbackCreateFails(r)
  \/ \E r \in Reqs : CallbackLinkFails(r)
  \/ \E r \in Reqs : CallbackCreateSessionFails(r)

SpecFaults == Init /\ [][NextFaults]_vars


\* SpecSessionFaults: the requests of SpecSessions, with the database
\* failing at the session read of any lookup.
NextSessionFaults ==
  \/ NextSessions
  \/ ~SigningIn /\ last = Idle /\ \E r \in Reqs, cookie \in cookies :
       AuthDbReadFails(r, "me", cookie)
  \/ ~SigningIn /\ last = Idle /\ \E r \in Reqs, cookie \in cookies :
       SessionInfoDbReadFails(r, cookie)

SpecSessionFaults == Init /\ [][NextSessionFaults]_vars

\* SpecRoundTrip: one token made from any claim set and decoded, before or
\* after the clock has advanced.
NextTrip ==
  \/ Tick
  \/ \E d \in ClaimSets : TripIssue(d)
  \/ TripDecode

SpecRoundTrip == Init /\ [][NextTrip]_vars

\* SpecGitHub: one exchange with GitHub, on any profile and address list.
NextGitHub ==
  \/ \E pid \in 1..MaxPid, emails \in GitHubEmailLists,
        profile \in Emails \cup {NoEmail} : GitHubAnswers(pid, emails, profile)
  \/ GitHubExchange

SpecGitHub == Init /\ [][NextGitHub]_vars

\* ================================================================ properties
\* The state of nonce n is within its lifetime of STATE_TTL seconds.
Fresh(n) == now < stateLog[n].at + STATE_TTL

\* The response is the 400 of a failed state validation.
InvalidState(q) == q.status = 400 /\ q.detail = "Invalid state parameter"

\* C1: of the callbacks that present an issued nonce for its provider within
\* its lifetime, however their cache get and delete steps interleave, the
\* first passes state validation and every other one is rejected with 400
\* 'Invalid state parameter'; no nonce ever has more than one session.
C1_ExactlyOnePasses ==
  [][/\ \A r \in Reqs, n \in nonces :
          (Fresh(n) /\ CallbackStart(r, stateLog[n].provider, n, NoError))
            => IF stateLog[n].passes = 0
               THEN stateLog'[n].passes = 1
               ELSE stateLog'[n].passes = 1 /\ InvalidState(last')
     /\ \A n \in DOMAIN stateLog' : stateLog'[n].sessions <= 1]_vars

\* C2: once a callback has passed validation with nonce n and deleted its
\* state, every later callback presenting n and the provider of n ends at
\* its state check with 400 'Invalid state parameter', and leaves the users,
\* the linked accounts, the sessions and the cache as they were, with no
\* token, session id or user in its response.
C2_ConsumedNonceRejected ==
  [][\A r \in Reqs, n \in nonces :
       (stateLog[n].consumed /\ CallbackStart(r, stateLog[n].provider, n, NoError))
         => /\ InvalidState(last')
            /\ req'[r] = Idle
            /\ last'.token = NoClaims /\ last'.sid = 0 /\ last'.user = NoUser
            /\ UNCHANGED <<db, cache>>]_vars

\* C2 witness: a callback presented a consumed nonce with its provider and
\* was answered 400.
C2_Witness ==
  /\ last.kind = "callback" /\ InvalidState(last)
  /\ last.state \in DOMAIN stateLog
  /\ stateLog[last.state].consumed
  /\ stateLog[last.state].provider = last.provider

\* C3: in every reachable state no two linked accounts share (provider,
\* provider id) and no two users share an e-mail address.
C3_UniqueIdentities ==
  /\ \A a, b \in oauthAccounts :
       (a.provider = b.provider /\ a.providerId = b.providerId) => a = b
  /\ \A i, j \in DOMAIN users : users[i].email = users[j].email => i = j

\* C3 witness: two callbacks raced to create a user for the same e-mail
\* address or the same external identity, and the second create was refused.
C3_Witness ==
  /\ last.kind = "callback" /\ last.detail = "UniqueViolationError"
  /\ \/ EmailTaken(users, last.oauth_user.email)
     \/ AccountTaken(oauthAccounts, last.oauth_user.provider, last.oauth_user.provider_id)

\* A bearer credential as issued and not yet expired; a session id that names
\* an unexpired row; the user a token's claims describe.
ValidToken(cred) == cred.form = "signed" /\ now < cred.claims.exp
ValidSession(sid) == sid \in DOMAIN sessions /\ sessions[sid].expiresAt > now
ClaimsUser(c) == [id |-> c.sub, username |-> c.username, email |-> c.email]
\* The response to a request that resolved its user without a bearer token.
SessionLookup(q) == q.kind \in {"me", "session"} /\ q.cred = NoCred /\ q.cookie # 0

\* C4: get_current_user, given a valid bearer token of user A and a cookie
\* that names a valid session of another user B, returns A as the token's
\* claims describe it and reads neither the session table nor the cache.
C4_TokenTakesPrecedence ==
  (/\ last.kind = "me" /\ ValidToken(last.cred)
   /\ ValidSession(last.cookie)
   /\ sessions[last.cookie].userId # last.cred.claims.sub)
    => /\ last.status = 200
       /\ last.user = ClaimsUser(last.cred.claims)
       /\ last.via = "token" /\ ~last.looked

\* C4 witness: such a request was answered.
C4_Witness ==
  /\ last.kind = "me" /\ ValidToken(last.cred)
  /\ ValidSession(last.cookie)
  /\ sessions[last.cookie].userId # last.cred.claims.sub
  /\ last.status = 200

\* C5: get_current_user, given a bearer token that is malformed, tampered
\* or expired, fails as unauthenticated (401) and never consults the session,
\* whatever the cookie names.
C5_InvalidTokenUnauthenticated ==
  (last.kind = "me" /\ last.cred # NoCred /\ ~ValidToken(last.cred))
    => last.status = 401 /\ ~last.looked

\* C6: get_current_user, given an invalid bearer token and a cookie that
\* names a valid session, returns the session's user.
C6_InvalidTokenFallsBack ==
  (/\ last.kind = "me" /\ last.cred # NoCred /\ ~ValidToken(last.cred)
   /\ ValidSession(last.cookie))
    => /\ last.status = 200
       /\ last.user = UserModel(users, sessions[last.cookie].userId)

\* C7: no session lookup returns a session from the cache once the row of
\* that session was deleted by logout or by the sweep.
C7_NoShadowAfterDelete ==
  (SessionLookup(last) /\ last.status = 200 /\ last.via = "cache")
    => last.cookie \notin deleted

\* C8: a session lookup for an id whose row has expired answers 401, also
\* when the cache holds a copy for the id.
C8_ExpiredRowRejected ==
  (/\ SessionLookup(last)
   /\ last.cookie \in DOMAIN sessions
   /\ sessions[last.cookie].expiresAt < now)
    => last.status = 401

C10_TokenAndClockDecide ==
  (last.kind = "me" /\ last.cred.form = "signed")
    => /\ now < last.cred.claims.exp
            => last.status = 200 /\ last.user = ClaimsUser(last.cred.claims)
       /\ now > last.cred.claims.exp
            => last.status # 200 /\ last.user = NoUser

\* C10 witness: a token resolved to its user after the user's row, sessions
\* and linked accounts were deleted.
C10_Witness ==
  /\ last.kind = "me" /\ ValidToken(last.cred) /\ last.status = 200
  /\ last.cred.claims.sub \notin DOMAIN users

AccountsOf(accts, u) == {a \in accts : a.userId = u}

C13_ExpiredNonceRejected ==
  [][\A r \in Reqs : \A n \in DOMAIN stateLog :
       (/\ CallbackStart(r, stateLog[n].provider, n, NoError)
        /\ now > stateLog[n].at + STATE_TTL)
         => InvalidState(last')]_vars

\* A callback for provider p presenting nonce n would pass the state check of
\* oauth_callback now.
WouldPass(n, p) ==
  LET got == CacheGet(backend, cache, StateKey(n), now)
  IN got.type = "bytes" /\ got.val.prov = p

\* C14: once a callback that presented an issued nonce n has been answered
\* 400 "Invalid state parameter", the state of n is gone: no callback that
\* presents n, for whichever provider, would pass state validation.
C14_RejectionConsumes ==
  (/\ last.kind = "callback" /\ InvalidState(last)
   /\ last.state \in DOMAIN stateLog)
    => \A p \in PathProviders : ~WouldPass(last.state, p)

\* C15: a callback for provider p that presents, with no error parameter, a
\* nonce whose stored state names another provider is answered 400 "Invalid
\* state parameter".
C15_ProviderMismatchRejected ==
  [][\A r \in Reqs : \A p \in PathProviders : \A n \in DOMAIN stateLog :
       (/\ CallbackStart(r, p, n, NoError)
        /\ CacheLive(cache, StateKey(n), now)
        /\ cache[StateKey(n)].prov # p)
         => InvalidState(last')]_vars

\* The state of nonce n is absent from the store, past its lifetime, or was
\* issued for a provider other than p.
StateAbsent(n) == StateKey(n) \notin DOMAIN cache
StateExpired(n) == n \in DOMAIN stateLog /\ ~Fresh(n)
StateMismatched(n, p) == n \in DOMAIN stateLog /\ stateLog[n].provider # p

\* C16: a callback answers 307 only after it passed state validation and
\* deleted the state; and a callback, with no error parameter, whose state is
\* absent, expired or mismatched is answered 400 "Invalid state parameter"
\* at once, before any call to the provider, with the users, the linked
\* accounts, the sessions and the cache left as they were.
C16_SuccessOnlyAfterValidation ==
  /\ [](last.kind = "callback" /\ last.status = 307
          => /\ last.state \in DOMAIN stateLog
             /\ stateLog[last.state].passes >= 1
             /\ stateLog[last.state].consumed)
  /\ [][\A r \in Reqs : \A p \in PathProviders : \A n \in nonces \cup {0} :
          (/\ CallbackStart(r, p, n, NoError)
           /\ StateAbsent(n) \/ StateExpired(n) \/ StateMismatched(n, p))
            => /\ InvalidState(last')
               /\ req'[r] = Idle
               /\ UNCHANGED <<db, cache>>]_vars

\* C18: every session id a client holds in a cookie, and every one a callback
\* sets in its 307 response, names a session row that was written for the
\* user of that response before the response; and a callback whose session
\* write fails ends in an error with no row and no cache entry written, and
\* the client gets no cookie and no token from a callback that did not
\* answer 307.
C18_CookieNamesDurableSession ==
  /\ [](/\ \A sid \in cookies : sid \in DOMAIN sessions
        /\ last.kind = "callback" /\ last.status = 307
             => /\ last.sid \in DOMAIN sessions
                /\ sessions[last.sid].userId = last.user.id)
  /\ [][/\ \A r \in Reqs :
             CallbackCreateSessionFails(r)
               => /\ last'.status >= 400 /\ last'.sid = 0
                  /\ req'[r] = Idle
                  /\ UNCHANGED <<sessions, nSessions, cache>>
        /\ (last.kind = "callback" /\ last.status # 307 /\ Deliver)
               => UNCHANGED <<cookies, tokens>>]_vars

\* C18 witness: a client holds the cookie of one callback, and another
\* callback has just failed at its session write.
C18_Witness ==
  /\ cookies # {}
  /\ last.kind = "callback" /\ last.status = 500 /\ last.detail = "PrismaError"
  /\ last.token # NoClaims
  /\ nSessions = 1

\* C19: a failure of the cache server during the state lookup of a callback
\* is taken as a miss: the callback is answered as one whose state is absent,
\* 400 "Invalid state parameter", and not with a server error.
C19_CacheFailureIsMiss ==
  [][\A r \in Reqs : \A p \in PathProviders : \A n \in nonces \cup {0} :
       CallbackStateGetFails(r, p, n)
         => InvalidState(last') /\ last'.status < 500]_vars

\* C20: in every state of the tables, also after a creation that failed,
\* every linked account belongs to a user of the table, and every user has
\* a linked account.
C20_CreateIsAtomic ==
  /\ \A a \in oauthAccounts : a.userId \in DOMAIN users
  /\ \A u \in DOMAIN users : AccountsOf(oauthAccounts, u) # {}

\* C20 witness: a creation has just failed on a unique constraint, next to a
\* user that another callback created.
C20_Witness ==
  /\ last.kind = "callback" /\ last.detail = "UniqueViolationError"
  /\ nUsers >= 1
  /\ ~EmailTaken(users, last.oauth_user.email)

\* C21: link_oauth_account for a (provider, provider id) that is linked
\* already returns False and writes nothing; and no step of any operation
\* changes the user an account of a given (provider, provider id) is linked
\* to.
C21_LinkNeverReassigns ==
  [][/\ \A r \in Reqs :
          (/\ CallbackLink(r)
           /\ AccountTaken(oauthAccounts, req[r].oauth_user.provider,
                           req[r].oauth_user.provider_id))
            => /\ req'[r].via = "link refused"
               /\ UNCHANGED oauthAccounts
     /\ \A a \in oauthAccounts : \A b \in oauthAccounts' :
          (a.provider = b.provider /\ a.providerId = b.providerId)
            => b.userId = a.userId]_vars

\* C21 witness: a callback's link was refused, the account being linked
\* already by a racing callback.
C21_Witness ==
  \E r \in Reqs :
    /\ req[r].pc = "issue_token" /\ req[r].via = "link refused"
    /\ AccountTaken(oauthAccounts, req[r].oauth_user.provider, req[r].oauth_user.provider_id)

\* The callback of request r holds a user that get_or_create_user returned.
Resolved(r) ==
  req[r].kind = "callback" /\ req[r].pc \in {"issue_token", "create_session", "cache_session"}

\* C22: whenever get_or_create_user has returned a user to a callback, the
\* external identity of that callback is linked to that user; a creation or
\* link that was refused is never answered with a user.
C22_ReturnedUserIsLinked ==
  \A r \in Reqs :
    Resolved(r) =>
      \E a \in oauthAccounts :
        /\ a.provider = req[r].oauth_user.provider
        /\ a.providerId = req[r].oauth_user.provider_id
        /\ a.userId = req[r].user.id

\* C23: get_current_user, given no bearer token, returns the user of the
\* session the cookie names when that session is valid, and otherwise (no
\* cookie, no such session, or an expired one) fails with 401 "Not
\* authenticated".
C23_SessionDecides ==
  (last.kind = "me" /\ last.cred = NoCred)
    => IF ValidSession(last.cookie)
       THEN /\ last.status = 200
            /\ last.user = UserModel(users, sessions[last.cookie].userId)
       ELSE /\ last.status = 401 /\ last.detail = "Not authenticated"
            /\ last.user = NoUser

\* C24: get_optional_current_user never raises: it returns the user
\* get_current_user returns for the same input, and None for every input
\* get_current_user fails on, a bearer token that is malformed, tampered or
\* expired included.
C24_OptionalNeverRaises ==
  last.kind = "optional"
    => /\ last.status = 200
       /\ ValidToken(last.cred) => last.user = ClaimsUser(last.cred.claims)
       /\ (last.cred # NoCred /\ ~ValidToken(last.cred)) => last.user = NoUser
       /\ (last.cred = NoCred /\ ValidSession(last.cookie))
            => last.user = UserModel(users, sessions[last.cookie].userId)

\* C25: for every bearer token a request presented that fails verification
\* (no JWT, altered, or expired) get_current_user_from_token raises the HTTPException with status
\* 401, and no other exception.
C25_BadTokenIs401 ==
  (/\ last.kind \in {"me", "logout", "optional"} /\ last.cred # NoCred
   /\ ~decode_access_token(last.cred, now).ok)
    => LET t == get_current_user_from_token(last.cred, now)
       IN t.raised = "HTTPException" /\ t.status = 401

CacheSessions(c) == [k \in {x \in DOMAIN c : c[x].kind = "session"} |-> c[k]]

\* C27: a callback whose code exchange fails, its provider being configured,
\* is answered 400 "OAuth authentication failed" with no user, token or
\* session id; and none of its steps, from the state check to the failed
\* exchange, changes the users, the linked accounts, the sessions or the
\* session entries of the cache.
C27_FailedExchangeWritesNothing ==
  [][\A r \in Reqs :
       /\ (CallbackExchange(r, FALSE, NoOAuthUser) /\ req[r].provider \in configured)
            => /\ last'.status = 400 /\ last'.detail = "OAuth authentication failed"
               /\ last'.user = NoUser /\ last'.token = NoClaims /\ last'.sid = 0
               /\ stateLog[req[r].state].consumed
               /\ UNCHANGED <<db, cache>>
       /\ (/\ req'[r] # req[r] /\ req'[r].kind = "callback"
           /\ req'[r].pc \in {"state_delete", "exchange"})
            => /\ UNCHANGED db
               /\ CacheSessions(cache') = CacheSessions(cache)]_vars

\* C27 witness: a callback's exchange has just failed, after its state was
\* deleted, with a user, a session and its cache entry in place from an
\* earlier sign-in.
C27_Witness ==
  /\ last.kind = "callback" /\ last.status = 400
  /\ last.detail = "OAuth authentication failed"
  /\ stateLog[last.state].consumed
  /\ DOMAIN users # {} /\ DOMAIN sessions # {} /\ DOMAIN CacheSessions(cache) # {}

\* C28: a failure of a request to the provider, while the authorization URL
\* is built as well as while the code is exchanged, reaches the route
\* handler as OAuthError and as no other exception.
C28_ProviderFailureIsOAuthError ==
  [][\A r \in Reqs :
       /\ LoginDiscoveryFails(r) => last'.detail = "OAuthError"
       /\ (CallbackExchange(r, FALSE, NoOAuthUser) /\ req[r].provider \in configured)
            => last'.detail = "OAuth authentication failed"]_vars

\* The clock values a session can be looked up or swept at: now, and the
\* moments the sessions expire.
SweepTimes == {now} \cup {sessions[s].expiresAt : s \in DOMAIN sessions}

\* C29: delete_expired_sessions removes only rows whose expiry is past: a
\* session get_session still returns is kept as it is, a row that is removed
\* is one get_session rejects already, and the sweep leaves the cache, the
\* users and the linked accounts alone.
C29_SweepRemovesOnlyExpired ==
  /\ [](\A t \in SweepTimes : \A sid \in DOMAIN sessions :
          LET kept == delete_expired_sessions(sessions, t) IN
          /\ DOMAIN kept \subseteq DOMAIN sessions
          /\ get_session(sessions, users, sid, t).found
               => sid \in DOMAIN kept /\ kept[sid] = sessions[sid]
          /\ sid \notin DOMAIN kept
               => /\ ~get_session(sessions, users, sid, t).found
                  /\ sessions[sid].expiresAt < t)
  /\ [][Sweep => /\ sessions' = delete_expired_sessions(sessions, now)
                 /\ \A sid \in DOMAIN sessions :
                      ValidSession(sid) => sid \in DOMAIN sessions' /\ sessions'[sid] = sessions[sid]
                 /\ \A sid \in DOMAIN sessions \ DOMAIN sessions' : ~ValidSession(sid)
                 /\ UNCHANGED <<cache, users, oauthAccounts>>]_vars

\* C29 witness: the sweep has removed an expired row whose cache entry is
\* still there, and has left a valid session.
C29_Witness ==
  /\ NoRequest /\ last = Idle
  /\ \E s \in deleted \ DOMAIN sessions : SessionKey(s) \in DOMAIN cache
  /\ \E s \in DOMAIN sessions : ValidSession(s)

\* A claim set with none of the claims jwt.decode judges or the encoder
\* replaces: no exp, no aud, and no nbf later than the moment t of decoding.
PlainClaims(d, t) ==
  /\ "exp" \notin DOMAIN d /\ "aud" \notin DOMAIN d
  /\ "nbf" \in DOMAIN d => d.nbf <= t

C31_ExpiredAndMalformedDiffer ==
  (last.kind \in {"me", "logout", "optional"} /\ last.cred # NoCred)
    => LET d == decode_access_token(last.cred, now) IN
       /\ last.cred.form \in {"garbage", "tampered"}
            => ~d.ok /\ d.error = "DecodeError"
       /\ (last.cred.form = "signed" /\ last.cred.claims.exp <= now)
            => ~d.ok /\ d.error = "ExpiredSignatureError"
       /\ d.ok => last.cred.form = "signed" /\ last.cred.claims.exp > now

\* C31 witness: a request presented an altered token whose exp is past, and
\* the decoder's DecodeError ended it.
C31_Witness ==
  /\ last.kind = "me" /\ last.cred.form = "tampered"
  /\ last.cred.claims.exp < now
  /\ last.detail = "DecodeError"

\* C32: the cache entry of every session carries a time to live, and with
\* it ends no later than the session's row expires: both last
\* ACCESS_TOKEN_EXPIRE_MINUTES from the session's creation.
C32_ShadowExpiresWithSession ==
  \A sid \in DOMAIN sessions :
    SessionKey(sid) \in DOMAIN cache
      => /\ cache[SessionKey(sid)].exp # NoExpiry
         /\ cache[SessionKey(sid)].exp <= sessions[sid].expiresAt

\* C33: a session lookup whose database read failed or found no valid row
\* goes on to the cache; there it answers with the user of the cache entry
\* when the cache holds one for the session, and with 401 and no user when
\* it holds none.
C33_FallbackToShadow ==
  [][\A r \in Reqs :
       /\ \A cookie \in cookies :
            /\ ((AuthStart(r, "me", NoCred, cookie) /\ ~ValidSession(cookie))
                  \/ AuthDbReadFails(r, "me", cookie))
                 => req'[r].pc = "auth_cache"
            /\ ((SessionInfoStart(r, cookie) /\ ~ValidSession(cookie))
                  \/ SessionInfoDbReadFails(r, cookie))
                 => req'[r].pc = "info_cache"
       /\ ((AuthCacheGet(r) /\ req[r].kind = "me") \/ SessionInfoCacheGet(r))
            => IF CacheLive(cache, SessionKey(req[r].cookie), now)
               THEN /\ last'.status = 200 /\ last'.via = "cache"
                    /\ last'.user = cache[SessionKey(req[r].cookie)].user
               ELSE /\ last'.status = 401 /\ last'.user = NoUser]_vars

\* C33 witness: the database read of a valid session failed, and the lookup
\* answered with the user of the cache entry.
C33_Witness ==
  /\ last.kind \in {"me", "session"} /\ last.status = 200 /\ last.via = "cache"
  /\ ValidSession(last.cookie)
  /\ last.user = UserModel(users, sessions[last.cookie].userId)

C35_GitHubPrimaryEmail ==
  (trip.stage = "exchanged" /\ "github" \in configured) =>
    LET emails == trip.emails
        out == trip.out
        P == {i \in DOMAIN emails : emails[i].primary}
    IN /\ out.ok =>
            /\ out.identity.email \in Emails
            /\ P = {} => out.identity.email = trip.profile
            /\ P # {} => \E i \in P : /\ \A j \in 1..(i - 1) : ~emails[j].primary
                                      /\ out.identity.email = emails[i].email
       /\ ~out.ok =>
            /\ out.error = "OAuthError" /\ out.identity = NoOAuthUser
            /\ P = {} => trip.profile = NoEmail
            /\ P # {} => \E i \in P : /\ \A j \in 1..(i - 1) : ~emails[j].primary
                                      /\ emails[i].email = NoEmail

\* C35 witness: two entries are flagged primary, the profile has a third
\* address, and the identity carries the address of the first entry.
C35_Witness ==
  /\ trip.stage = "exchanged" /\ trip.out.ok
  /\ Len(trip.emails) = 2 /\ trip.emails[1].primary /\ trip.emails[2].primary
  /\ trip.emails[1].email # trip.emails[2].email
  /\ trip.profile \notin {trip.emails[1].email, trip.emails[2].email}
  /\ trip.out.identity.email = trip.emails[1].email

\* C36: a callback that presents, for the provider of the login, a nonce that
\* a login issued less than STATE_TTL seconds ago and that no callback has
\* read yet passes state validation and goes on to delete the state,
\* whichever cache client is installed.
C36_IssuedNoncePasses ==
  [][\A r \in Reqs : \A n \in nonces :
       (/\ Fresh(n)
        /\ stateLog[n].passes = 0
        /\ ~stateLog[n].consumed
        /\ CallbackStart(r, stateLog[n].provider, n, NoError))
         => (req'[r].pc = "state_delete" /\ stateLog'[n].passes = 1)]_vars

\* C37: a login that is answered with anything but the redirect (400 for an
\* unsupported provider, 500 for a provider that is not configured) has left
\* no state in the store: its response names no nonce, or the store holds
\* nothing under that nonce.
C37_FailedLoginStoresNothing ==
  (last.kind = "login" /\ last.status # 307)
    => (last.state = 0 \/ StateKey(last.state) \notin DOMAIN cache)

\* C38: a logout by an authenticated user removes from the database only
\* session rows of that user, and from the cache only the entry of a session
\* of that user.
C38_LogoutOnlyOwnSessions ==
  [][\A r \in Reqs :
       /\ LogoutDbDelete(r)
            => \A sid \in DOMAIN sessions \ DOMAIN sessions' :
                 sessions[sid].userId = req[r].user.id
       /\ LogoutCacheDelete(r)
            => \A sid \in 1..nSessions :
                 (SessionKey(sid) \in DOMAIN cache \ DOMAIN cache')
                   => cache[SessionKey(sid)].user.id = req[r].user.id]_vars

\* C39: in every reachable state and for every cookie (none, the id of any
\* session ever made, an id never made), GET /auth/session answers 401
\* exactly when get_current_user_from_session returns None, and otherwise
\* answers 200 with the id, username and e-mail of the user the dependency
\* returns.
C39_ReadPathsAgree ==
  \A cookie \in 0..(nSessions + 1) :
    LET u == get_current_user_from_session(sessions, users, backend, cache, cookie, now)
        i == get_session_info(sessions, users, backend, cache, cookie, now)
    IN /\ i.status = 401 <=> (u.raised = "" /\ u.user = NoUser)
       /\ i.status # 401 => (i.status = 200 /\ u.raised = "" /\ u.user = i.user)

\* C39 witness: GET /auth/session has answered from the cache for a cookie
\* whose session row is gone or expired, and the dependency returns the same
\* user for that cookie.
C39_Witness ==
  /\ last.kind = "session" /\ last.status = 200 /\ last.via = "cache"
  /\ ~ValidSession(last.cookie)
  /\ get_current_user_from_session(sessions, users, backend, cache, last.cookie, now).user
       = last.user
  /\ get_session_info(sessions, users, backend, cache, last.cookie, now)
       = [status |-> 200, user |-> last.user]

\* C40: every step of a callback leaves the session rows and the cache
\* entries of the sessions made before it as they were; its session write
\* adds exactly one row, under an id no session ever had, for the user the
\* callback resolved; no other step of a callback adds a row; and a callback
\* that was answered without having written its session carries no session
\* id, while one answered 307 carries the id of the one row it wrote.
C40_OneNewSessionPerCallback ==
  /\ [][\A r \in Reqs :
          (req'[r] # req[r] /\ (req[r].kind = "callback" \/ req'[r].kind = "callback"))
            => /\ \A sid \in DOMAIN sessions :
                    sid \in DOMAIN sessions' /\ sessions'[sid] = sessions[sid]
               /\ \A sid \in 1..nSessions :
                    sid # req[r].sid =>
                      /\ SessionKey(sid) \in DOMAIN cache <=> SessionKey(sid) \in DOMAIN cache'
                      /\ SessionKey(sid) \in DOMAIN cache
                           => cache'[SessionKey(sid)] = cache[SessionKey(sid)]
               /\ IF CallbackCreateSession(r)
                  THEN /\ req'[r].sid \notin 1..nSessions
                       /\ req[r].sid = 0
                       /\ DOMAIN sessions' = DOMAIN sessions \cup {req'[r].sid}
                       /\ sessions'[req'[r].sid].userId = req[r].user.id
                       /\ req[r].user # NoUser
                  ELSE /\ sessions' = sessions /\ nSessions' = nSessions
                       /\ req'[r].kind = "callback" => req'[r].sid = req[r].sid]_vars
  /\ [](last.kind = "callback" => (last.status = 307 <=> last.sid # 0))

\* C40 witness: a user has signed in twice: the second callback was answered
\* 307 with a new session id, and the row and the cache entry of the first
\* session are in place beside those of the second.
C40_Witness ==
  /\ last.kind = "callback" /\ last.status = 307 /\ last.sid = 2
  /\ DOMAIN sessions = {1, 2}
  /\ sessions[1].userId = last.user.id /\ sessions[2].userId = last.user.id
  /\ SessionKey(1) \in DOMAIN cache /\ SessionKey(2) \in DOMAIN cache
====
